---- MODULE Spec2Model ----
(***************************************************************************)
(* SkRecorder (src/core/SkRecorder.cpp): a canvas that, instead of         *)
(* drawing, appends one SkRecords entry per call to an SkRecord, keeps a   *)
(* side table of the drawables it was asked to draw and mirrors the save   *)
(* stack of the canvas it derives from.                                    *)
(***************************************************************************)
EXTENDS Integers, Sequences, FiniteSets, TLC

(***************************************************************************)
(* Bounds of the model.                                                    *)
(***************************************************************************)
\* calls made on one recorder when every entry point is available
MaxCalls == 2
\* calls made on one recorder by the save / restore scenarios
MaxSaveCalls == 5
\* calls made on one recorder by the drawable scenarios
MaxDrawableCalls == 5
\* elements of a caller-side array
MaxLen == 2
\* bytes found behind a caller-side buffer that holds no terminating zero
MaxGarbage == 1

(***************************************************************************)
(* Pointers: NULL, or a pointer to a value.                                *)
(***************************************************************************)
NULL == <<>>
Ptr(v) == <<v>>
Deref(p) == p[1]

(***************************************************************************)
(* The values the callers pass.                                            *)
(***************************************************************************)
Drawables == {"d1", "d2"}
Factories == {"bbhA", "bbhB"}
RecordFlags == {0, 1}
Paints == {"paintA"}
Rects == {"rectA"}
Matrices == 0 .. 2
ClipRects == 0 .. 3
Elems == {1, 2}
Bytes == {0, 1}

RECURSIVE SeqsUpTo(_, _)
\* every sequence over S of length at most n
SeqsUpTo(S, n) ==
    IF n = 0 THEN {<<>>}
    ELSE LET shorter == SeqsUpTo(S, n - 1)
         IN  shorter \cup {Append(s, x) : s \in {t \in shorter : Len(t) = n - 1}, x \in S}

\* an optional argument: absent, or a pointer to one of vals
Optional(vals) == {NULL} \cup {Ptr(v) : v \in vals}

VARIABLES
    status,             \* "alive", "destroyed", or how the process died
    budget,             \* member function calls the recorder is still driven through
    fRecord,            \* SkRecorder::fRecord: NULL or a pointer to the record
    record,             \* the entries of the SkRecord, in order
    fSaveLayerCount,    \* SkRecorder::fSaveLayerCount
    fSaveIsSaveLayer,   \* SkRecorder::fSaveIsSaveLayer, bottom first
    fDrawableList,      \* SkRecorder::fDrawableList
    refCnt,             \* reference count of every drawable object
    fMatrix,            \* total matrix of the base canvas
    fClip,              \* device bounds of the clip of the base canvas
    fMCStack,           \* saved (matrix, clip) frames of the base canvas
    calls,              \* the recording calls made so far, in order
    lastOp,             \* the member function entered last
    layerRet,           \* what isDrawingToLayer returned last
    snapshotArgs,       \* what newDrawableSnapshot was called with last
    snapshotRet,        \* what newDrawableSnapshot returned last
    picRefCnt,          \* reference count of every picture, in order of creation
    datas               \* every SkData newDrawableSnapshot returned, in order

vars == <<status, budget, fRecord, record, fSaveLayerCount, fSaveIsSaveLayer,
          fDrawableList, refCnt, fMatrix, fClip, fMCStack, calls, lastOp,
          layerRet, snapshotArgs, snapshotRet, picRefCnt, datas>>

\* the state of the recorder proper
recorderVars == <<fSaveLayerCount, fSaveIsSaveLayer, fDrawableList, refCnt>>
\* the state of the canvas the recorder derives from
canvasVars == <<fMatrix, fClip, fMCStack>>
\* what the accessors returned
retVars == <<layerRet, snapshotArgs, snapshotRet, picRefCnt, datas>>

TheRecord == Ptr("record")
\* SkIRect::MakeWH(width, height): the device bounds the canvas starts with
InitialClip == 3
\* the identity, the total matrix the canvas starts with
InitialMatrix == 0

\* SkRecorder::SkRecorder: bound to the record, no layer open
Constructed(n) ==
    /\ status = "alive"
    /\ budget = n
    /\ fRecord = TheRecord
    /\ record = <<>>
    /\ fSaveLayerCount = 0
    /\ fSaveIsSaveLayer = <<>>
    /\ fDrawableList = <<>>
    /\ refCnt = [d \in Drawables |-> 1]
    /\ picRefCnt = <<>>
    /\ datas = <<>>
    /\ fMatrix = InitialMatrix
    /\ fClip = InitialClip
    /\ fMCStack = <<>>
    /\ calls = <<>>
    /\ lastOp = "SkRecorder"
    /\ layerRet = FALSE
    /\ snapshotArgs = NULL
    /\ snapshotRet = NULL

Init == Constructed(MaxCalls)

(***************************************************************************)
(* APPEND and the entry of a recording member function.                    *)
(***************************************************************************)
\* an array argument as the caller passed it: the entry field it is copied
\* to, the pointer and the count
Arg(field, src, count) == [field |-> field, src |-> src, count |-> count]

\* a member function that records is entered on a live recorder
Enter(op, arg) ==
    /\ status = "alive"
    /\ budget > 0
    /\ budget' = budget - 1
    /\ lastOp' = op
    /\ calls' = Append(calls, [op |-> op, arg |-> arg])

\* an append that puts the entry in front of the record
APPEND_Front(entry) ==
    IF fRecord = NULL
    THEN /\ status' = "segv_record"
         /\ record' = record
    ELSE /\ status' = status
         /\ record' = <<entry>> \o record

\* APPEND(T, ...): fRecord->append<T>() and the construction of the entry in place
APPEND(entry) ==
    IF fRecord = NULL
    THEN /\ status' = "segv_record"
         /\ record' = record
    ELSE /\ status' = status
         /\ record' = Append(record, entry)

(***************************************************************************)
(* The copy() overloads.                                                   *)
(***************************************************************************)
\* copy(const T* src): an optional value
CopyOptional(src) ==
    IF src = NULL THEN NULL ELSE Ptr(Deref(src))

\* a loop that stops one element short
CopyArray_OneShort(src, count) ==
    IF src = NULL THEN NULL
    ELSE Ptr([i \in 1 .. count - 1 |-> Deref(src)[i]])

\* copy(const T src[], size_t count): element by element into alloc<T>(count)
CopyArray(src, count) ==
    IF src = NULL THEN NULL
    ELSE Ptr([i \in 1 .. count |-> Deref(src)[i]])

\* copy(const char src[], size_t count): memcpy into alloc<char>(count)
CopyBytes(src, count) ==
    IF src = NULL THEN NULL
    ELSE Ptr(SubSeq(Deref(src), 1, count))

\* the bytes that may lie behind a buffer, up to and including the first zero
Garbage == {Append(g, 0) : g \in SeqsUpTo(Bytes \ {0}, MaxGarbage)}

\* position of the first zero byte of a byte sequence that has one
FirstZero(bytes) ==
    CHOOSE i \in 1 .. Len(bytes) :
        /\ bytes[i] = 0
        /\ \A j \in 1 .. i - 1 : bytes[j] # 0

HasZero(bytes) == \E i \in 1 .. Len(bytes) : bytes[i] = 0

\* a read that faults: through a null pointer, or past the end of a buffer
Fault(why) == [fault |-> why, len |-> 0, mem |-> <<>>]
NoFault == "none"

\* strlen(src): the outcomes of scanning from src for a zero byte; reading
\* through a null pointer faults, reading past the end of the caller's
\* buffer faults or runs on into whatever bytes follow it
Strlen(src) ==
    IF src = NULL THEN {Fault("null")}
    ELSE IF HasZero(Deref(src))
         THEN {[fault |-> NoFault, len |-> FirstZero(Deref(src)) - 1, mem |-> Deref(src)]}
         ELSE {Fault("overread")} \cup
              {[fault |-> NoFault, len |-> Len(Deref(src)) + Len(g) - 1,
                mem |-> Deref(src) \o g] : g \in Garbage}

\* copy(const char* src): this->copy(src, strlen(src)+1), one result per
\* outcome of strlen
CopyString(src) ==
    {[fault |-> s.fault,
      ptr   |-> IF s.fault # NoFault THEN NULL ELSE CopyBytes(Ptr(s.mem), s.len + 1)]
        : s \in Strlen(src)}

\* SkPaint::countText for a one byte per glyph encoding
countText(text, byteLength) == byteLength

(***************************************************************************)
(* The canvas the recorder derives from.                                   *)
(***************************************************************************)
Min(a, b) == IF a < b THEN a ELSE b

\* SkCanvas::internalSave: the matrix and clip in force are saved
BaseSave == Append(fMCStack, [matrix |-> fMatrix, clip |-> fClip])

\* the frame SkCanvas::internalRestore returns to
BaseTop ==
    IF fMCStack = <<>> THEN [matrix |-> fMatrix, clip |-> fClip]
    ELSE fMCStack[Len(fMCStack)]

\* SkCanvas::internalRestore: the saved frame is dropped
BasePop ==
    IF fMCStack = <<>> THEN fMCStack
    ELSE SubSeq(fMCStack, 1, Len(fMCStack) - 1)

\* SkCanvas::concat: the total matrix after concatenating m
BaseConcat(m) == (fMatrix + m) % 3

\* SkCanvas::onClipRect and its siblings: the device bounds after the clip
BaseClip(shape, op) ==
    IF op = "kReplace_Op" THEN shape ELSE Min(fClip, shape)

\* this->devBounds() and this->getTotalMatrix() as a handler reads them: the
\* handler runs after the base canvas has changed its state
devBounds_Stale == fClip
devBounds == fClip'
getTotalMatrix_Stale == fMatrix
getTotalMatrix == fMatrix'

\* what a member function that only records leaves alone
notRecord == <<fRecord, recorderVars, canvasVars, retVars>>

\* the entry is appended unless copying an argument faulted first
AppendUnlessFault(fault, entry) ==
    IF fault # NoFault
    THEN /\ status' = IF fault = "null" THEN "segv_null" ELSE "segv_overread"
         /\ record' = record
    ELSE APPEND(entry)

(***************************************************************************)
(* Drawing calls.                                                          *)
(***************************************************************************)
Clear(color) ==
    /\ Enter("clear", "-")
    /\ APPEND([tag |-> "Clear", color |-> color])
    /\ UNCHANGED notRecord

DrawPaint(paint) ==
    /\ Enter("drawPaint", "-")
    /\ APPEND([tag |-> "DrawPaint", paint |-> paint])
    /\ UNCHANGED notRecord

DrawPoints(mode, count, pts, paint) ==
    /\ Enter("drawPoints", <<Arg("pts", pts, count)>>)
    /\ APPEND([tag |-> "DrawPoints", paint |-> paint, mode |-> mode,
                         count |-> count, pts |-> CopyArray(pts, count)])
    /\ UNCHANGED notRecord

DrawRect(rect, paint) ==
    /\ Enter("drawRect", "-")
    /\ APPEND([tag |-> "DrawRect", paint |-> paint, rect |-> rect])
    /\ UNCHANGED notRecord

DrawOval(oval, paint) ==
    /\ Enter("drawOval", "-")
    /\ APPEND([tag |-> "DrawOval", paint |-> paint, oval |-> oval])
    /\ UNCHANGED notRecord

DrawRRect(rrect, paint) ==
    /\ Enter("drawRRect", "-")
    /\ APPEND([tag |-> "DrawRRect", paint |-> paint, rrect |-> rrect])
    /\ UNCHANGED notRecord

OnDrawDRRect(outer, inner, paint) ==
    /\ Enter("onDrawDRRect", "-")
    /\ APPEND([tag |-> "DrawDRRect", paint |-> paint,
                           outer |-> outer, inner |-> inner])
    /\ UNCHANGED notRecord

DrawPath(path, paint) ==
    /\ Enter("drawPath", "-")
    /\ APPEND([tag |-> "DrawPath", paint |-> paint, path |-> path])
    /\ UNCHANGED notRecord

DrawBitmap(bitmap, left, top, paint) ==
    /\ Enter("drawBitmap", "-")
    /\ APPEND([tag |-> "DrawBitmap", paint |-> CopyOptional(paint),
                         bitmap |-> bitmap, left |-> left, top |-> top])
    /\ UNCHANGED notRecord

DrawBitmapRectToRect(bitmap, src, dst, paint, flags) ==
    /\ Enter("drawBitmapRectToRect", "-")
    /\ APPEND([tag |-> "DrawBitmapRectToRect", paint |-> CopyOptional(paint),
           bitmap |-> bitmap, src |-> CopyOptional(src), dst |-> dst, flags |-> flags])
    /\ UNCHANGED notRecord

DrawBitmapMatrix(bitmap, matrix, paint) ==
    /\ Enter("drawBitmapMatrix", "-")
    /\ APPEND([tag |-> "DrawBitmapMatrix", paint |-> CopyOptional(paint),
                               bitmap |-> bitmap, matrix |-> matrix])
    /\ UNCHANGED notRecord

DrawBitmapNine(bitmap, center, dst, paint) ==
    /\ Enter("drawBitmapNine", "-")
    /\ APPEND([tag |-> "DrawBitmapNine", paint |-> CopyOptional(paint),
                             bitmap |-> bitmap, center |-> center, dst |-> dst])
    /\ UNCHANGED notRecord

DrawImage(image, left, top, paint) ==
    /\ Enter("drawImage", "-")
    /\ APPEND([tag |-> "DrawImage", paint |-> CopyOptional(paint),
                        image |-> image, left |-> left, top |-> top])
    /\ UNCHANGED notRecord

DrawImageRect(image, src, dst, paint) ==
    /\ Enter("drawImageRect", "-")
    /\ APPEND([tag |-> "DrawImageRect", paint |-> CopyOptional(paint),
                            image |-> image, src |-> CopyOptional(src), dst |-> dst])
    /\ UNCHANGED notRecord

DrawSprite(bitmap, left, top, paint) ==
    /\ Enter("drawSprite", "-")
    /\ APPEND([tag |-> "DrawSprite", paint |-> CopyOptional(paint),
                         bitmap |-> bitmap, left |-> left, top |-> top])
    /\ UNCHANGED notRecord

OnDrawText(text, byteLength, x, y, paint) ==
    /\ Enter("onDrawText", <<Arg("text", text, byteLength)>>)
    /\ APPEND([tag |-> "DrawText", paint |-> paint,
                         text |-> CopyBytes(text, byteLength),
                         byteLength |-> byteLength, x |-> x, y |-> y])
    /\ UNCHANGED notRecord

OnDrawPosText(text, byteLength, pos, paint) ==
    LET points == countText(text, byteLength)
    IN  /\ Enter("onDrawPosText", <<Arg("text", text, byteLength), Arg("pos", pos, points)>>)
        /\ APPEND([tag |-> "DrawPosText", paint |-> paint,
                                text |-> CopyBytes(text, byteLength),
                                byteLength |-> byteLength,
                                pos |-> CopyArray(pos, points)])
        /\ UNCHANGED notRecord

OnDrawPosTextH(text, byteLength, xpos, constY, paint) ==
    LET points == countText(text, byteLength)
    IN  /\ Enter("onDrawPosTextH", <<Arg("text", text, byteLength), Arg("xpos", xpos, points)>>)
        /\ APPEND([tag |-> "DrawPosTextH", paint |-> paint,
                                 text |-> CopyBytes(text, byteLength),
                                 byteLength |-> byteLength,
                                 xpos |-> CopyArray(xpos, points),
                                 constY |-> constY])
        /\ UNCHANGED notRecord

OnDrawTextOnPath(text, byteLength, path, matrix, paint) ==
    /\ Enter("onDrawTextOnPath", <<Arg("text", text, byteLength)>>)
    /\ APPEND([tag |-> "DrawTextOnPath", paint |-> paint,
                               text |-> CopyBytes(text, byteLength),
                               byteLength |-> byteLength, path |-> path,
                               matrix |-> CopyOptional(matrix)])
    /\ UNCHANGED notRecord

OnDrawTextBlob(blob, x, y, paint) ==
    /\ Enter("onDrawTextBlob", "-")
    /\ APPEND([tag |-> "DrawTextBlob", paint |-> paint,
                             blob |-> blob, x |-> x, y |-> y])
    /\ UNCHANGED notRecord

OnDrawPicture(pic, matrix, paint) ==
    /\ Enter("onDrawPicture", "-")
    /\ APPEND([tag |-> "DrawPicture", paint |-> CopyOptional(paint),
                            pic |-> pic, matrix |-> CopyOptional(matrix)])
    /\ UNCHANGED notRecord

DrawVertices(vmode, vertexCount, vertices, texs, colors, xmode, indices, indexCount, paint) ==
    /\ Enter("drawVertices", <<Arg("vertices", vertices, vertexCount),
                               Arg("texs", texs, vertexCount),
                               Arg("colors", colors, vertexCount),
                               Arg("indices", indices, indexCount)>>)
    /\ APPEND([tag |-> "DrawVertices", paint |-> paint, vmode |-> vmode,
           vertexCount |-> vertexCount,
           vertices |-> CopyArray(vertices, vertexCount),
           texs |-> IF texs # NULL THEN CopyArray(texs, vertexCount) ELSE NULL,
           colors |-> IF colors # NULL THEN CopyArray(colors, vertexCount) ELSE NULL,
           xmode |-> xmode,
           indices |-> CopyArray(indices, indexCount),
           indexCount |-> indexCount])
    /\ UNCHANGED notRecord

\* SkPatchUtils::kNumCtrlPts, SkPatchUtils::kNumCorners
kNumCtrlPts == 12
kNumCorners == 4

OnDrawPatch(cubics, colors, texCoords, xmode, paint) ==
    /\ Enter("onDrawPatch", <<Arg("cubics", cubics, kNumCtrlPts),
                              Arg("colors", colors, kNumCorners),
                              Arg("texCoords", texCoords, kNumCorners)>>)
    /\ APPEND([tag |-> "DrawPatch", paint |-> paint,
           cubics |-> IF cubics # NULL THEN CopyArray(cubics, kNumCtrlPts) ELSE NULL,
           colors |-> IF colors # NULL THEN CopyArray(colors, kNumCorners) ELSE NULL,
           texCoords |-> IF texCoords # NULL THEN CopyArray(texCoords, kNumCorners) ELSE NULL,
           xmode |-> xmode])
    /\ UNCHANGED notRecord

OnPushCull(rect) ==
    /\ Enter("onPushCull", "-")
    /\ APPEND([tag |-> "PushCull", rect |-> rect])
    /\ UNCHANGED notRecord

OnPopCull ==
    /\ Enter("onPopCull", "-")
    /\ APPEND([tag |-> "PopCull"])
    /\ UNCHANGED notRecord

BeginCommentGroup(description) ==
    /\ Enter("beginCommentGroup", "-")
    /\ \E d \in CopyString(description) :
           AppendUnlessFault(d.fault, [tag |-> "BeginCommentGroup", description |-> d.ptr])
    /\ UNCHANGED notRecord

AddComment(key, value) ==
    /\ Enter("addComment", "-")
    /\ \E k \in CopyString(key), v \in CopyString(value) :
           AppendUnlessFault(IF k.fault # NoFault THEN k.fault ELSE v.fault,
                             [tag |-> "AddComment", key |-> k.ptr, value |-> v.ptr])
    /\ UNCHANGED notRecord

EndCommentGroup ==
    /\ Enter("endCommentGroup", "-")
    /\ APPEND([tag |-> "EndCommentGroup"])
    /\ UNCHANGED notRecord

DrawData(data, length) ==
    /\ Enter("drawData", <<Arg("data", data, length)>>)
    /\ \E d \in CopyString(data) :
           AppendUnlessFault(d.fault, [tag |-> "DrawData", data |-> d.ptr, length |-> length])
    /\ UNCHANGED notRecord

(***************************************************************************)
(* Save, save layer and restore.                                           *)
(***************************************************************************)
\* fSaveIsSaveLayer.push(false)
PushSave == Append(fSaveIsSaveLayer, FALSE)

\* a willSaveLayer that marks its frame as a plain save
PushSaveLayer_False == Append(fSaveIsSaveLayer, FALSE)

\* fSaveIsSaveLayer.push(true)
PushSaveLayer == Append(fSaveIsSaveLayer, TRUE)

\* fSaveLayerCount++
LayerCountAfterSaveLayer == fSaveLayerCount + 1

\* fSaveIsSaveLayer.pop(&saveLayer): the value popped
PoppedFrame == fSaveIsSaveLayer[Len(fSaveIsSaveLayer)]

\* a pop that takes the oldest frame off
StackAfterPop_Oldest == Tail(fSaveIsSaveLayer)

\* fSaveIsSaveLayer.pop(&saveLayer): the stack left
StackAfterPop == SubSeq(fSaveIsSaveLayer, 1, Len(fSaveIsSaveLayer) - 1)

\* a restore that never closes a layer
LayerCountAfterRestore_Never(saveLayer) == fSaveLayerCount

\* a restore that closes a layer whatever frame it pops
LayerCountAfterRestore_Always(saveLayer) == fSaveLayerCount - 1

\* if (saveLayer) { fSaveLayerCount--; }
LayerCountAfterRestore(saveLayer) ==
    IF saveLayer THEN fSaveLayerCount - 1 ELSE fSaveLayerCount

\* SkCanvas::save calls willSave, then saves its own frame
WillSave ==
    /\ Enter("willSave", "-")
    /\ fSaveIsSaveLayer' = PushSave
    /\ APPEND([tag |-> "Save"])
    /\ fMCStack' = BaseSave
    /\ UNCHANGED <<fRecord, fSaveLayerCount, fDrawableList, refCnt, fMatrix, fClip, retVars>>

\* SkCanvas::saveLayer calls willSaveLayer, then saves its own frame; the
\* strategy returned is always kNoLayer_SaveLayerStrategy
WillSaveLayer(bounds, paint, flags) ==
    /\ Enter("willSaveLayer", "-")
    /\ fSaveLayerCount' = LayerCountAfterSaveLayer
    /\ fSaveIsSaveLayer' = PushSaveLayer
    /\ APPEND([tag |-> "SaveLayer", bounds |-> CopyOptional(bounds),
               paint |-> CopyOptional(paint), flags |-> flags])
    /\ fMCStack' = BaseSave
    /\ UNCHANGED <<fRecord, fDrawableList, refCnt, fMatrix, fClip, retVars>>

\* APPEND(Restore, this->devBounds(), this->getTotalMatrix())
RestoreEntry == [tag |-> "Restore", devBounds |-> devBounds, matrix |-> getTotalMatrix]

\* a pop of the empty stack that goes unchecked: the flag read is whatever
\* lay there, here true, and the restore is recorded
PopOfEmpty_Unchecked ==
    /\ fSaveIsSaveLayer' = <<>>
    /\ fSaveLayerCount' = fSaveLayerCount - 1
    /\ APPEND(RestoreEntry)

\* fSaveIsSaveLayer.pop(&saveLayer) on the empty stack: fatal, the counter
\* and the record are not touched
PopOfEmpty ==
    /\ status' = "abort_underflow"
    /\ UNCHANGED <<record, fSaveIsSaveLayer, fSaveLayerCount>>

\* SkCanvas::restore returns to its saved frame, then calls didRestore
DidRestore ==
    /\ Enter("didRestore", "-")
    /\ fMatrix' = BaseTop.matrix
    /\ fClip' = BaseTop.clip
    /\ fMCStack' = BasePop
    /\ IF fSaveIsSaveLayer = <<>>
       THEN PopOfEmpty
       ELSE /\ fSaveIsSaveLayer' = StackAfterPop
            /\ fSaveLayerCount' = LayerCountAfterRestore(PoppedFrame)
            /\ APPEND(RestoreEntry)
    /\ UNCHANGED <<fRecord, fDrawableList, refCnt, retVars>>

\* return fSaveLayerCount > 0
isDrawingToLayer == fSaveLayerCount > 0

IsDrawingToLayer ==
    /\ status = "alive"
    /\ budget > 0
    /\ budget' = budget - 1
    /\ lastOp' = "isDrawingToLayer"
    /\ layerRet' = isDrawingToLayer
    /\ UNCHANGED <<status, fRecord, record, recorderVars, canvasVars, calls,
                   snapshotArgs, snapshotRet, picRefCnt, datas>>

(***************************************************************************)
(* Matrix and clip.                                                        *)
(***************************************************************************)
\* what didSetMatrix appends
SetMatrixEntry(matrix) == [tag |-> "SetMatrix", matrix |-> matrix]

\* a didConcat that records the concat and then the matrix it led to
DidConcat_TwoEntries(matrix) ==
    /\ Enter("didConcat", matrix)
    /\ fMatrix' = BaseConcat(matrix)
    /\ IF fRecord = NULL
       THEN /\ status' = "segv_record"
            /\ record' = record
       ELSE /\ status' = status
            /\ record' = record \o <<[tag |-> "Concat", matrix |-> matrix],
                                      [tag |-> "SetMatrix", matrix |-> fMatrix']>>
    /\ UNCHANGED <<fRecord, recorderVars, fClip, fMCStack, retVars>>

\* a didConcat that hands its own argument on: this->didSetMatrix(matrix)
DidConcat_Argument(matrix) ==
    /\ Enter("didConcat", matrix)
    /\ fMatrix' = BaseConcat(matrix)
    /\ APPEND(SetMatrixEntry(matrix))
    /\ UNCHANGED <<fRecord, recorderVars, fClip, fMCStack, retVars>>

\* SkCanvas::concat changes its total matrix, then calls didConcat, which
\* calls this->didSetMatrix(this->getTotalMatrix())
DidConcat(matrix) ==
    /\ Enter("didConcat", matrix)
    /\ fMatrix' = BaseConcat(matrix)
    /\ APPEND(SetMatrixEntry(getTotalMatrix))
    /\ UNCHANGED <<fRecord, recorderVars, fClip, fMCStack, retVars>>

\* SkCanvas::setMatrix changes its total matrix, then calls didSetMatrix
DidSetMatrix(matrix) ==
    /\ Enter("didSetMatrix", matrix)
    /\ fMatrix' = matrix
    /\ APPEND(SetMatrixEntry(matrix))
    /\ UNCHANGED <<fRecord, recorderVars, fClip, fMCStack, retVars>>

\* SkRecords::RegionOpAndAA opAA(op, kSoft_ClipEdgeStyle == edgeStyle)
RegionOpAndAA(op, edgeStyle) ==
    [op |-> op, aa |-> (edgeStyle = "kSoft_ClipEdgeStyle")]

\* what a clip call leaves alone
notClip == <<fRecord, recorderVars, fMatrix, fMCStack, retVars>>

\* INHERITED(onClipRect, ...) clips the base canvas first; the entry takes
\* this->devBounds() after it
OnClipRect(rect, op, edgeStyle) ==
    /\ Enter("onClipRect", "-")
    /\ fClip' = BaseClip(rect, op)
    /\ APPEND([tag |-> "ClipRect", devBounds |-> devBounds, rect |-> rect,
               opAA |-> RegionOpAndAA(op, edgeStyle)])
    /\ UNCHANGED notClip

OnClipRRect(rrect, op, edgeStyle) ==
    /\ Enter("onClipRRect", "-")
    /\ fClip' = BaseClip(rrect, op)
    /\ APPEND([tag |-> "ClipRRect", devBounds |-> devBounds, rrect |-> rrect,
               opAA |-> RegionOpAndAA(op, edgeStyle)])
    /\ UNCHANGED notClip

OnClipPath(path, op, edgeStyle) ==
    /\ Enter("onClipPath", "-")
    /\ fClip' = BaseClip(path, op)
    /\ APPEND([tag |-> "ClipPath", devBounds |-> devBounds, path |-> path,
               opAA |-> RegionOpAndAA(op, edgeStyle)])
    /\ UNCHANGED notClip

OnClipRegion(deviceRgn, op) ==
    /\ Enter("onClipRegion", "-")
    /\ fClip' = BaseClip(deviceRgn, op)
    /\ APPEND([tag |-> "ClipRegion", devBounds |-> devBounds, region |-> deviceRgn, op |-> op])
    /\ UNCHANGED notClip

(***************************************************************************)
(* The drawable side table.                                                *)
(***************************************************************************)
\* SkCanvasDrawable::getBounds
getBounds(drawable) == <<"bounds", drawable>>

\* SkCanvasDrawable::newPictureSnapshot
newPictureSnapshot(drawable, factory, recordFlags) ==
    [drawable |-> drawable, factory |-> factory, flags |-> recordFlags]

\* number of slots of list that hold d
Slots(list, d) == Cardinality({i \in DOMAIN list : list[i] = d})

\* fDrawableList.unrefAll(): one unref per slot
UnrefAll(list, rc) == [d \in Drawables |-> rc[d] - Slots(list, d)]

\* a table that keeps the slot of a drawable it already holds
ListAfterAppend_Dedup(drawable) ==
    IF \E i \in DOMAIN fDrawableList : fDrawableList[i] = drawable
    THEN fDrawableList
    ELSE Append(fDrawableList, drawable)

\* *fDrawableList.append() = SkRef(drawable): the table after
ListAfterAppend(drawable) == Append(fDrawableList, drawable)

\* the drawable stored without being retained
RefAfterSkRef_NoRef(drawable) == refCnt

\* SkRef(drawable): the reference counts after
RefAfterSkRef(drawable) == [refCnt EXCEPT ![drawable] = @ + 1]

\* the count of the table taken for the index of its last slot
IndexOfNewSlot_Count(list) == Len(list)

\* fDrawableList.count() - 1, read after the append
IndexOfNewSlot(list) == Len(list) - 1

OnDrawDrawable(drawable) ==
    /\ Enter("onDrawDrawable", drawable)
    /\ fDrawableList' = ListAfterAppend(drawable)
    /\ refCnt' = RefAfterSkRef(drawable)
    /\ APPEND([tag |-> "DrawDrawable", bounds |-> getBounds(drawable),
               index |-> IndexOfNewSlot(fDrawableList')])
    /\ UNCHANGED <<fRecord, fSaveLayerCount, fSaveIsSaveLayer, canvasVars, retVars>>

\* a snapshot loop that asks the first drawable every time
DrawableSnapshot_FirstOnly(factory, recordFlags) ==
    LET count == Len(fDrawableList)
    IN  IF 0 = count THEN NULL
        ELSE Ptr([i \in 1 .. count |->
                     newPictureSnapshot(fDrawableList[1], factory, recordFlags)])

\* the SkData newDrawableSnapshot returns
DrawableSnapshot(factory, recordFlags) ==
    LET count == Len(fDrawableList)
    IN  IF 0 = count THEN NULL
        ELSE Ptr([i \in 1 .. count |->
                     newPictureSnapshot(fDrawableList[i], factory, recordFlags)])

\* the pictures the snapshot loop obtains: each newPictureSnapshot call
\* hands over a new picture holding one reference
NewPictures == [i \in 1 .. Len(fDrawableList) |-> Len(picRefCnt) + i]

\* SkData::NewWithProc(array, length, unref_all_malloc_releaseProc, context)
new_uninitialized_refcnt_ptrs(array) == [array |-> array, freed |-> FALSE]

NewDrawableSnapshot(factory, recordFlags) ==
    /\ status = "alive"
    /\ budget > 0
    /\ budget' = budget - 1
    /\ lastOp' = "newDrawableSnapshot"
    /\ snapshotArgs' = Ptr([factory |-> factory, flags |-> recordFlags])
    /\ snapshotRet' = DrawableSnapshot(factory, recordFlags)
    /\ picRefCnt' = picRefCnt \o [i \in 1 .. Len(fDrawableList) |-> 1]
    /\ datas' = IF 0 = Len(fDrawableList) THEN datas
                ELSE Append(datas, new_uninitialized_refcnt_ptrs(NewPictures))
    /\ UNCHANGED <<status, fRecord, record, recorderVars, canvasVars, calls, layerRet>>

\* a release loop that stops one pointer short
UnrefArray_OneShort(array, rc) ==
    [p \in DOMAIN rc |->
        rc[p] - Cardinality({i \in 1 .. Len(array) - 1 : array[i] = p})]

\* for (int i = 0; i < count; ++i) SkSafeUnref(array[i])
UnrefArray(array, rc) ==
    [p \in DOMAIN rc |->
        rc[p] - Cardinality({i \in 1 .. Len(array) : array[i] = p})]

\* unref_all_malloc_releaseProc, run when the k-th SkData is destroyed; the
\* SkData may outlive the recorder
ReleaseProc(k) ==
    /\ status \in {"alive", "destroyed"}
    /\ budget > 0
    /\ k \in DOMAIN datas
    /\ ~datas[k].freed
    /\ budget' = budget - 1
    /\ lastOp' = "unref_all_malloc_releaseProc"
    /\ picRefCnt' = UnrefArray(datas[k].array, picRefCnt)
    /\ datas' = [datas EXCEPT ![k].freed = TRUE]
    /\ UNCHANGED <<status, fRecord, record, recorderVars, canvasVars, calls,
                   layerRet, snapshotArgs, snapshotRet>>

\* a forget that leaves the released slots in the table
ListAfterReset_Kept == fDrawableList

\* fDrawableList.reset()
ListAfterReset == <<>>

\* a forget that also closes every open save
ForgetRecord_ResetsLayers ==
    /\ status = "alive"
    /\ budget > 0
    /\ budget' = budget - 1
    /\ lastOp' = "forgetRecord"
    /\ refCnt' = UnrefAll(fDrawableList, refCnt)
    /\ fDrawableList' = ListAfterReset
    /\ fRecord' = NULL
    /\ fSaveLayerCount' = 0
    /\ fSaveIsSaveLayer' = <<>>
    /\ UNCHANGED <<status, record, canvasVars, calls, retVars>>

ForgetRecord ==
    /\ status = "alive"
    /\ budget > 0
    /\ budget' = budget - 1
    /\ lastOp' = "forgetRecord"
    /\ refCnt' = UnrefAll(fDrawableList, refCnt)
    /\ fDrawableList' = ListAfterReset
    /\ fRecord' = NULL
    /\ UNCHANGED <<status, record, fSaveLayerCount, fSaveIsSaveLayer, canvasVars,
                   calls, retVars>>

\* SkRecorder::~SkRecorder
Destructor ==
    /\ status = "alive"
    /\ budget > 0
    /\ budget' = budget - 1
    /\ lastOp' = "~SkRecorder"
    /\ status' = "destroyed"
    /\ refCnt' = UnrefAll(fDrawableList, refCnt)
    /\ UNCHANGED <<fRecord, record, fSaveLayerCount, fSaveIsSaveLayer, fDrawableList,
                   canvasVars, calls, retVars>>

(***************************************************************************)
(* The arguments the specifications draw from.                             *)
(***************************************************************************)
Colors == {"RED"}
Bitmaps == {"bitmapA"}
Images == {"imageA"}
Paths == {"pathA"}
Ops == {"kIntersect_Op", "kReplace_Op"}
EdgeStyles == {"kHard_ClipEdgeStyle", "kSoft_ClipEdgeStyle"}
OptPaints == Optional(Paints)
OptRects == Optional(Rects)
OptMatrices == Optional({1})
\* a caller-side array and the same argument left out
SomeArrays == {NULL, Ptr([i \in 1 .. MaxLen |-> i])}
\* caller-side text
SomeTexts == {NULL, Ptr([i \in 1 .. MaxLen |-> 1])}
\* the control points of a patch
PatchCubics == {NULL, Ptr([i \in 1 .. kNumCtrlPts |-> i])}
\* nul-terminated strings, and no string
SomeStrings == {NULL, Ptr(<<1, 0>>)}
\* caller-side data: none, with a zero byte inside, without any zero byte
SomeData == {NULL, Ptr(<<1, 0>>), Ptr(<<1, 1>>)}

(***************************************************************************)
(* Every member function, in any order.                                    *)
(***************************************************************************)
\* an optional argument that is present exactly when p is
Like(p, v) == IF p = NULL THEN NULL ELSE Ptr(v)

Next ==
    \/ \E c \in Colors : Clear(c)
    \/ \E p \in Paints : DrawPaint(p)
    \/ \E pts \in SomeArrays, p \in Paints : DrawPoints("kPoints_PointMode", MaxLen, pts, p)
    \/ \E r \in Rects, p \in Paints : DrawRect(r, p)
    \/ \E r \in Rects, p \in Paints : DrawOval(r, p)
    \/ \E r \in Rects, p \in Paints : DrawRRect(r, p)
    \/ \E r \in Rects, p \in Paints : OnDrawDRRect(r, r, p)
    \/ \E d \in Drawables : OnDrawDrawable(d)
    \/ \E path \in Paths, p \in Paints : DrawPath(path, p)
    \/ \E b \in Bitmaps, p \in OptPaints : DrawBitmap(b, 0, 0, p)
    \/ \E b \in Bitmaps, dst \in Rects, p \in OptPaints :
           DrawBitmapRectToRect(b, Like(p, dst), dst, p, "kNone_DrawBitmapRectFlag")
    \/ \E b \in Bitmaps, p \in OptPaints : DrawBitmapMatrix(b, 1, p)
    \/ \E b \in Bitmaps, r \in Rects, p \in OptPaints : DrawBitmapNine(b, r, r, p)
    \/ \E i \in Images, p \in OptPaints : DrawImage(i, 0, 0, p)
    \/ \E i \in Images, dst \in Rects, p \in OptPaints :
           DrawImageRect(i, Like(p, dst), dst, p)
    \/ \E b \in Bitmaps, p \in OptPaints : DrawSprite(b, 0, 0, p)
    \/ \E t \in SomeTexts, p \in Paints : OnDrawText(t, MaxLen, 0, 0, p)
    \/ \E t \in SomeTexts, p \in Paints :
           OnDrawPosText(t, MaxLen, Like(t, [i \in 1 .. MaxLen |-> i]), p)
    \/ \E t \in SomeTexts, p \in Paints :
           OnDrawPosTextH(t, MaxLen, Like(t, [i \in 1 .. MaxLen |-> i]), 0, p)
    \/ \E t \in SomeTexts, path \in Paths, p \in Paints :
           OnDrawTextOnPath(t, MaxLen, path, Like(t, 1), p)
    \/ \E p \in Paints : OnDrawTextBlob("blobA", 0, 0, p)
    \/ \E p \in OptPaints : OnDrawPicture("pictureA", Like(p, 1), p)
    \/ \E v \in SomeArrays, p \in Paints :
           DrawVertices("kTriangles_VertexMode", MaxLen, v, v, v, "xmodeA", v, MaxLen, p)
    \/ \E cubics \in PatchCubics, p \in Paints :
           OnDrawPatch(cubics, Like(cubics, [i \in 1 .. kNumCorners |-> i]),
                       Like(cubics, [i \in 1 .. kNumCorners |-> i]), "xmodeA", p)
    \/ WillSave
    \/ \E p \in OptPaints, r \in Rects :
           WillSaveLayer(Like(p, r), p, "kARGB_ClipLayer_SaveFlag")
    \/ DidRestore
    \/ \E r \in Rects : OnPushCull(r)
    \/ OnPopCull
    \/ \E m \in {1, 2} : DidConcat(m)
    \/ \E m \in {1, 2} : DidSetMatrix(m)
    \/ \E op \in Ops : OnClipRect(2, op, "kSoft_ClipEdgeStyle")
    \/ \E op \in Ops : OnClipRRect(2, op, "kHard_ClipEdgeStyle")
    \/ \E op \in Ops : OnClipPath(2, op, "kSoft_ClipEdgeStyle")
    \/ \E op \in Ops : OnClipRegion(2, op)
    \/ \E d \in SomeStrings : BeginCommentGroup(d)
    \/ \E k \in SomeStrings, v \in SomeStrings : AddComment(k, v)
    \/ EndCommentGroup
    \/ IsDrawingToLayer
    \/ \E d \in SomeData : DrawData(d, MaxLen)
    \/ \E f \in Factories : NewDrawableSnapshot(f, 0)
    \/ ForgetRecord
    \/ Destructor

Spec == Init /\ [][Next]_vars

(***************************************************************************)
(* Save, save layer and restore among drawing, clipping and transforming.  *)
(***************************************************************************)
InitSave == Constructed(MaxSaveCalls)

NextSave ==
    \/ WillSave
    \/ \E p \in OptPaints, r \in Rects :
           WillSaveLayer(Like(p, r), p, "kARGB_ClipLayer_SaveFlag")
    \/ DidRestore
    \/ \E p \in Paints : DrawPaint(p)
    \/ OnClipRect(1, "kIntersect_Op", "kSoft_ClipEdgeStyle")
    \/ DidConcat(1)
    \/ IsDrawingToLayer
    \/ ForgetRecord

SpecSave == InitSave /\ [][NextSave]_vars

(***************************************************************************)
(* Drawables drawn, snapshotted, forgotten and torn down.                  *)
(***************************************************************************)
InitDrawable == Constructed(MaxDrawableCalls)

NextDrawable ==
    \/ \E d \in Drawables : OnDrawDrawable(d)
    \/ \E f \in Factories, fl \in RecordFlags : NewDrawableSnapshot(f, fl)
    \/ \E k \in 1 .. MaxDrawableCalls : ReleaseProc(k)
    \/ \E p \in Paints : DrawPaint(p)
    \/ ForgetRecord
    \/ Destructor

SpecDrawable == InitDrawable /\ [][NextDrawable]_vars

(***************************************************************************)
(* The calls that copy caller memory, over every short buffer and count.   *)
(***************************************************************************)
MaxCopyCalls == 1

InitCopy == Constructed(MaxCopyCalls)

\* an array argument and its count: no array, or a buffer of MaxLen elements
\* of S with a count that stays inside it
ArrayArgs(S) ==
    {<<p, n>> : p \in Optional({b \in SeqsUpTo(S, MaxLen) : Len(b) = MaxLen}),
                n \in 0 .. MaxLen}

\* a second array long enough for any count, its elements in falling order
SideArray == Ptr([i \in 1 .. MaxLen + 1 |-> MaxLen + 1 - i])
SideArrays == {NULL, SideArray}

ElemArgs == ArrayArgs(Elems)
ByteArgs == ArrayArgs(Bytes)

NextCopy ==
    \/ \E a \in ElemArgs, p \in Paints :
           DrawPoints("kPoints_PointMode", a[2], a[1], p)
    \/ \E a \in ByteArgs, p \in Paints : OnDrawText(a[1], a[2], 0, 0, p)
    \/ \E a \in ByteArgs, pos \in SideArrays, p \in Paints :
           OnDrawPosText(a[1], a[2], pos, p)
    \/ \E a \in ByteArgs, xpos \in SideArrays, p \in Paints :
           OnDrawPosTextH(a[1], a[2], xpos, 0, p)
    \/ \E a \in ByteArgs, p \in Paints :
           OnDrawTextOnPath(a[1], a[2], "pathA", NULL, p)
    \/ \E a \in ElemArgs, side \in SideArrays, p \in Paints :
           DrawVertices("kTriangles_VertexMode", a[2], a[1], side, side, "xmodeA",
                        side, MaxLen, p)
    \/ \E cubics \in PatchCubics, p \in Paints :
           OnDrawPatch(cubics, Like(cubics, [i \in 1 .. kNumCorners |-> i]),
                       Like(cubics, [i \in 1 .. kNumCorners |-> i]), "xmodeA", p)
    \/ \E a \in ByteArgs : DrawData(a[1], a[2])

SpecCopy == InitCopy /\ [][NextCopy]_vars

(***************************************************************************)
(* Clips and matrix changes inside nested saves and restores.              *)
(***************************************************************************)
MaxCanvasCalls == 4

InitCanvas == Constructed(MaxCanvasCalls)

NextCanvas ==
    \/ WillSave
    \/ WillSaveLayer(NULL, NULL, "kARGB_ClipLayer_SaveFlag")
    \/ DidRestore
    \/ \E r \in {1, 2} : OnClipRect(r, "kIntersect_Op", "kSoft_ClipEdgeStyle")
    \/ OnClipRect(2, "kReplace_Op", "kHard_ClipEdgeStyle")
    \/ OnClipRRect(1, "kIntersect_Op", "kSoft_ClipEdgeStyle")
    \/ OnClipPath(2, "kIntersect_Op", "kSoft_ClipEdgeStyle")
    \/ OnClipRegion(2, "kReplace_Op")
    \/ \E m \in {1, 2} : DidConcat(m)
    \/ \E m \in {0, 2} : DidSetMatrix(m)

SpecCanvas == InitCanvas /\ [][NextCanvas]_vars

(***************************************************************************)
(* Properties.                                                             *)
(***************************************************************************)
Last(seq) == seq[Len(seq)]

IsPrefix(a, b) == Len(a) <= Len(b) /\ SubSeq(b, 1, Len(a)) = a

SaveOps == {"willSave", "willSaveLayer"}

\* saves and restores among the first k calls
SavesIn(k) == Cardinality({i \in 1 .. k : calls[i].op \in SaveOps})
RestoresIn(k) == Cardinality({i \in 1 .. k : calls[i].op = "didRestore"})

\* the save / restore calls made so far are balanced: no prefix restores more
\* than it saved, and every save has been restored
Balanced ==
    /\ \A k \in 1 .. Len(calls) : RestoresIn(k) <= SavesIn(k)
    /\ RestoresIn(Len(calls)) = SavesIn(Len(calls))

\* C1: after a balanced sequence of willSave / willSaveLayer / didRestore
\* calls on a freshly constructed recorder the save-frame stack is empty and
\* fSaveLayerCount is 0
C1_BalancedReturnsToEmpty ==
    Balanced => fSaveIsSaveLayer = <<>> /\ fSaveLayerCount = 0

\* a balanced sequence that nested a layer save in a plain save
C1_Witness ==
    /\ Balanced
    /\ status = "alive"
    /\ Len(calls) >= 4
    /\ calls[1].op = "willSave"
    /\ calls[2].op = "willSaveLayer"
    /\ fSaveIsSaveLayer = <<>>

\* a layer-save frame is open on the stack
LayerOpen == \E i \in DOMAIN fSaveIsSaveLayer : fSaveIsSaveLayer[i]

\* C2: isDrawingToLayer() is true exactly in the states in which a
\* layer-save frame is open, from the willSaveLayer that pushed it to the
\* didRestore that pops it, whatever is nested in between
C2_DrawingToLayerWhileLayerOpen ==
    /\ isDrawingToLayer <=> LayerOpen
    /\ lastOp = "isDrawingToLayer" => (layerRet <=> LayerOpen)

\* asked inside a plain save nested in a layer save
C2_Witness ==
    /\ lastOp = "isDrawingToLayer"
    /\ layerRet
    /\ Len(fSaveIsSaveLayer) = 2
    /\ fSaveIsSaveLayer[1]
    /\ ~fSaveIsSaveLayer[2]

\* the tag of the entry each recording member function appends
TagOf(op) ==
    CASE op = "clear" -> "Clear"
      [] op = "drawPaint" -> "DrawPaint"
      [] op = "drawPoints" -> "DrawPoints"
      [] op = "drawRect" -> "DrawRect"
      [] op = "drawOval" -> "DrawOval"
      [] op = "drawRRect" -> "DrawRRect"
      [] op = "onDrawDRRect" -> "DrawDRRect"
      [] op = "onDrawDrawable" -> "DrawDrawable"
      [] op = "drawPath" -> "DrawPath"
      [] op = "drawBitmap" -> "DrawBitmap"
      [] op = "drawBitmapRectToRect" -> "DrawBitmapRectToRect"
      [] op = "drawBitmapMatrix" -> "DrawBitmapMatrix"
      [] op = "drawBitmapNine" -> "DrawBitmapNine"
      [] op = "drawImage" -> "DrawImage"
      [] op = "drawImageRect" -> "DrawImageRect"
      [] op = "drawSprite" -> "DrawSprite"
      [] op = "onDrawText" -> "DrawText"
      [] op = "onDrawPosText" -> "DrawPosText"
      [] op = "onDrawPosTextH" -> "DrawPosTextH"
      [] op = "onDrawTextOnPath" -> "DrawTextOnPath"
      [] op = "onDrawTextBlob" -> "DrawTextBlob"
      [] op = "onDrawPicture" -> "DrawPicture"
      [] op = "drawVertices" -> "DrawVertices"
      [] op = "onDrawPatch" -> "DrawPatch"
      [] op = "willSave" -> "Save"
      [] op = "willSaveLayer" -> "SaveLayer"
      [] op = "didRestore" -> "Restore"
      [] op = "onPushCull" -> "PushCull"
      [] op = "onPopCull" -> "PopCull"
      [] op = "didConcat" -> "SetMatrix"
      [] op = "didSetMatrix" -> "SetMatrix"
      [] op = "onClipRect" -> "ClipRect"
      [] op = "onClipRRect" -> "ClipRRect"
      [] op = "onClipPath" -> "ClipPath"
      [] op = "onClipRegion" -> "ClipRegion"
      [] op = "beginCommentGroup" -> "BeginCommentGroup"
      [] op = "addComment" -> "AddComment"
      [] op = "endCommentGroup" -> "EndCommentGroup"
      [] op = "drawData" -> "DrawData"

\* every call made on the recorder returned
Returned == status \in {"alive", "destroyed"}

\* every call returned and the recorder is still bound to its record
Live == status = "alive" /\ fRecord # NULL

\* C3: after n recording calls on a live recorder the record holds exactly n
\* entries, and the i-th entry carries the tag of the i-th call
C3_OneEntryPerCall ==
    Returned => /\ Len(record) = Len(calls)
                /\ \A i \in 1 .. Len(calls) : record[i].tag = TagOf(calls[i].op)

\* drawRect then clear
C3_Witness ==
    /\ Live
    /\ Len(calls) = 2
    /\ calls[1].op = "drawRect"
    /\ calls[2].op = "clear"
    /\ record[1].tag = "DrawRect"
    /\ record[2].tag = "Clear"

RECURSIVE DrawnIn(_)
\* the drawables handed to the onDrawDrawable calls among cs, in call order
DrawnIn(cs) ==
    IF cs = <<>> THEN <<>>
    ELSE LET before == DrawnIn(SubSeq(cs, 1, Len(cs) - 1))
         IN  IF Last(cs).op = "onDrawDrawable"
             THEN Append(before, Last(cs).arg)
             ELSE before

Drawn == DrawnIn(calls)

\* this step is a call of the member function op
Called(op) == budget' < budget /\ lastOp' = op

\* C4: each onDrawDrawable call adds exactly one slot at the end of the side
\* table, leaves the slots before it as they were, and stores in the
\* DrawDrawable entry it appends the position of the new slot, which is the
\* length of the table before the call
C4_DrawDrawableAppendsOneSlot ==
    [][Called("onDrawDrawable") =>
          /\ fDrawableList' = Append(fDrawableList, Last(calls').arg)
          /\ status' = "alive" =>
                /\ Last(record').tag = "DrawDrawable"
                /\ Last(record').index = Len(fDrawableList)
                /\ fDrawableList'[Last(record').index + 1] = Last(calls').arg]_vars

\* the third drawable drawn, in slot 2
C4_Witness ==
    /\ lastOp = "onDrawDrawable"
    /\ status = "alive"
    /\ Len(fDrawableList) = 3
    /\ Last(record).tag = "DrawDrawable"
    /\ Last(record).index = 2

\* C5: on a recorder bound to its record newDrawableSnapshot returns NULL
\* when no drawable has been drawn; otherwise a buffer with one picture per
\* onDrawDrawable call, in call order, the i-th being the snapshot of the
\* i-th drawable drawn, asked with the factory and flags given
C5_SnapshotMatchesDrawables ==
    (lastOp = "newDrawableSnapshot" /\ fRecord # NULL) =>
        IF Drawn = <<>>
        THEN snapshotRet = NULL
        ELSE /\ snapshotRet # NULL
             /\ Len(Deref(snapshotRet)) = Len(Drawn)
             /\ \A i \in 1 .. Len(Drawn) :
                    Deref(snapshotRet)[i] =
                        newPictureSnapshot(Drawn[i], Deref(snapshotArgs).factory,
                                           Deref(snapshotArgs).flags)

\* a snapshot of two different drawables
C5_Witness ==
    /\ lastOp = "newDrawableSnapshot"
    /\ fRecord # NULL
    /\ snapshotRet # NULL
    /\ Len(Deref(snapshotRet)) = 2
    /\ Deref(snapshotRet)[1].drawable # Deref(snapshotRet)[2].drawable

\* C6 as claimed: the side table holds each drawable at most once
C6_NoDrawableTwice ==
    \A i, j \in DOMAIN fDrawableList :
        fDrawableList[i] = fDrawableList[j] => i = j

\* C6 as the code has it: while the recorder is alive and bound to its record
\* the side table holds, in call order, one slot per onDrawDrawable call, so a
\* drawable drawn again takes a further slot, and every slot holds a
\* reference of its own
C6_OneSlotPerCall ==
    Live =>
        /\ fDrawableList = Drawn
        /\ \A d \in Drawables : refCnt[d] = 1 + Slots(fDrawableList, d)

\* one drawable drawn twice
C6_Witness ==
    /\ status = "alive"
    /\ fRecord # NULL
    /\ Len(fDrawableList) = 2
    /\ fDrawableList[1] = fDrawableList[2]

\* C7: forgetRecord releases every reference the side table holds, empties
\* the table and detaches the recorder from the record; a forgetRecord right
\* after a forgetRecord changes nothing of the recorder and no reference
\* count
C7_ForgetReleasesAndIsIdempotent ==
    [][Called("forgetRecord") =>
          /\ fDrawableList' = <<>>
          /\ fRecord' = NULL
          /\ \A d \in Drawables : refCnt'[d] = refCnt[d] - Slots(fDrawableList, d)
          /\ \A d \in Drawables : refCnt'[d] = 1
          /\ lastOp = "forgetRecord" =>
                /\ <<status, fRecord, record, recorderVars, canvasVars>>'
                       = <<status, fRecord, record, recorderVars, canvasVars>>]_vars

\* two drawables drawn, then forgetRecord twice
C7_Witness ==
    /\ lastOp = "forgetRecord"
    /\ status = "alive"
    /\ Len(Drawn) = 2
    /\ Len(calls) = 2
    /\ budget = MaxDrawableCalls - 4
    /\ snapshotArgs = NULL
    /\ fDrawableList = <<>>

\* C8: every reference an onDrawDrawable call retains is released exactly
\* once: no count ever falls below what the callers hold, a recorder holds
\* one reference per slot, and after teardown every count is what it was
\* before recording
C8_ReferencesReleasedOnce ==
    /\ \A d \in Drawables : refCnt[d] >= 1
    /\ status = "alive" => \A d \in Drawables : refCnt[d] = 1 + Slots(fDrawableList, d)
    /\ status = "destroyed" => \A d \in Drawables : refCnt[d] = 1

\* torn down after drawables were drawn and forgotten
C8_Witness ==
    /\ status = "destroyed"
    /\ fRecord = NULL
    /\ Len(Drawn) >= 2

\* C9: no member function changes, reorders or removes an entry already in
\* the record: the record before a step is a prefix of the record after it
C9_RecordAppendOnly ==
    [][IsPrefix(record, record')]_vars

\* a restore appended behind the save it closes
C9_Witness ==
    /\ Len(record) = 2
    /\ record[1].tag = "Save"
    /\ record[2].tag = "Restore"
    /\ lastOp = "didRestore"

\* C10 as claimed: no copy of a pointer argument reads through a null pointer
C10_NullNeverDereferenced ==
    status # "segv_null"

\* the calls that copy arrays with a count
ArrayOps == {"drawPoints", "onDrawText", "onDrawPosText", "onDrawPosTextH",
             "onDrawTextOnPath", "drawVertices", "onDrawPatch"}

\* the entry field holds exactly the first count elements of the source
CopiedExactly(entry, a) ==
    LET dst == entry[a.field]
    IN  /\ dst # NULL
        /\ Len(Deref(dst)) = a.count
        /\ \A j \in 1 .. a.count : Deref(dst)[j] = Deref(a.src)[j]

\* C11: every array passed non-null with a count is stored as a copy of
\* exactly count elements, equal in order to the first count elements of
\* the caller's array
C11_ArrayCopiedElementwise ==
    Returned =>
        \A i \in 1 .. Len(calls) :
            calls[i].op \in ArrayOps =>
                \A k \in DOMAIN calls[i].arg :
                    calls[i].arg[k].src # NULL => CopiedExactly(record[i], calls[i].arg[k])

\* vertices copied from a longer buffer, with the side arrays cut to the
\* same count
C11_Witness ==
    /\ Returned
    /\ lastOp = "drawVertices"
    /\ Last(calls).arg[1].src = Ptr(<<2, 1>>)
    /\ Last(calls).arg[1].count = 1
    /\ Last(record).vertices = Ptr(<<2>>)
    /\ Last(record).colors = Ptr(<<MaxLen>>)
    /\ Last(record).indices = Ptr([i \in 1 .. MaxLen |-> MaxLen + 1 - i])

\* C19 as claimed: drawData stores a copy of exactly the first length bytes
\* of the caller's buffer, whatever zero bytes the buffer holds
C19_DataCopiedToLength ==
    Returned =>
        \A i \in 1 .. Len(calls) :
            (calls[i].op = "drawData" /\ calls[i].arg[1].src # NULL) =>
                /\ record[i].length = calls[i].arg[1].count
                /\ record[i].data =
                       Ptr(SubSeq(Deref(calls[i].arg[1].src), 1, calls[i].arg[1].count))

ClipOps == {"onClipRect", "onClipRRect", "onClipPath", "onClipRegion"}

\* the shape and the region op a clip entry was recorded with
ClipShape(e) ==
    CASE e.tag = "ClipRect" -> e.rect
      [] e.tag = "ClipRRect" -> e.rrect
      [] e.tag = "ClipPath" -> e.path
      [] e.tag = "ClipRegion" -> e.region
ClipOp(e) == IF e.tag = "ClipRegion" THEN e.op ELSE e.opAA.op

\* C12: a clip call clips the base canvas before its entry is built, so the
\* device bounds in the entry are the bounds the base canvas has once the new
\* clip is applied to the bounds it had before the call
C12_ClipEntryBoundsAfterClip ==
    [][(lastOp' \in ClipOps /\ budget' < budget /\ status' = "alive") =>
           /\ Last(record').devBounds = fClip'
           /\ Last(record').devBounds =
                  BaseClip(ClipShape(Last(record')), ClipOp(Last(record')))]_vars

\* inside a save taken under bounds 2, a clip narrows the bounds to 1 and
\* records 1
C12_Witness ==
    /\ status = "alive"
    /\ lastOp \in ClipOps
    /\ fMCStack # <<>>
    /\ Last(fMCStack).clip = 2
    /\ Last(record).devBounds = 1
    /\ fClip = 1

MatrixOps == {"didConcat", "didSetMatrix"}

\* C13: didConcat and didSetMatrix append the same kind of entry, one
\* SetMatrix entry, and the matrix stored is the total matrix of the base
\* canvas after the change, whichever call was made and whatever matrix was
\* passed to didConcat
C13_MatrixEntryIsTotalMatrix ==
    [][(lastOp' \in MatrixOps /\ budget' < budget /\ status' = "alive") =>
           /\ Len(record') = Len(record) + 1
           /\ IsPrefix(record, record')
           /\ Last(record').tag = "SetMatrix"
           /\ Last(record').matrix = fMatrix'
           /\ fMatrix' = IF lastOp' = "didConcat"
                         THEN BaseConcat(Last(calls').arg)
                         ELSE Last(calls').arg]_vars

\* a concat by 1 on top of a total matrix of 1 records the total, 2
C13_Witness ==
    /\ status = "alive"
    /\ lastOp = "didConcat"
    /\ Last(calls).arg = 1
    /\ Last(record).tag = "SetMatrix"
    /\ Last(record).matrix = 2
    /\ fMatrix = 2

\* the frames on the stack that are layer saves
LayerFrames == {i \in DOMAIN fSaveIsSaveLayer : fSaveIsSaveLayer[i]}

\* C14: the layer counter is the number of layer-save frames on the stack,
\* so it lies between 0 and the stack depth, and isDrawingToLayer() answers
\* true exactly when the counter is above 0
C14_LayerCountCountsLayerFrames ==
    /\ fSaveLayerCount = Cardinality(LayerFrames)
    /\ 0 <= fSaveLayerCount
    /\ fSaveLayerCount <= Len(fSaveIsSaveLayer)
    /\ isDrawingToLayer <=> fSaveLayerCount > 0
    /\ lastOp = "isDrawingToLayer" => (layerRet <=> LayerFrames # {})

\* two layers open around a plain save, and the accessor asked
C14_Witness ==
    /\ fSaveIsSaveLayer = <<TRUE, FALSE, TRUE>>
    /\ fSaveLayerCount = 2
    /\ lastOp = "isDrawingToLayer"
    /\ layerRet

RECURSIVE FramesAfter(_)
\* the frames left open by the first k calls: a save opens a plain frame, a
\* save layer a layer frame, a restore closes the frame opened last
FramesAfter(k) ==
    IF k = 0 THEN <<>>
    ELSE LET before == FramesAfter(k - 1)
             op == calls[k].op
         IN  CASE op = "willSave" -> Append(before, FALSE)
               [] op = "willSaveLayer" -> Append(before, TRUE)
               [] op = "didRestore" -> SubSeq(before, 1, Len(before) - 1)
               [] OTHER -> before

\* C15: short of an underflow, the stack depth is the number of saves and
\* save layers minus the number of restores, the stack holds false for each
\* open save and true for each open save layer in the order they were
\* opened, and a restore closes a layer exactly when the frame opened last is
\* a layer save
C15_StackFollowsSavesAndRestores ==
    /\ [](status # "abort_underflow" =>
             /\ Len(fSaveIsSaveLayer) = SavesIn(Len(calls)) - RestoresIn(Len(calls))
             /\ fSaveIsSaveLayer = FramesAfter(Len(calls)))
    /\ [][(lastOp' = "didRestore" /\ budget' < budget /\ status' # "abort_underflow") =>
              /\ fSaveIsSaveLayer = Append(fSaveIsSaveLayer', Last(fSaveIsSaveLayer))
              /\ fSaveLayerCount' < fSaveLayerCount <=> Last(fSaveIsSaveLayer)]_vars

\* a plain save inside a layer was restored: the layer frame is left
C15_Witness ==
    /\ status = "alive"
    /\ lastOp = "didRestore"
    /\ Last(calls).op = "didRestore"
    /\ SavesIn(Len(calls)) = 2
    /\ fSaveIsSaveLayer = <<TRUE>>
    /\ fSaveLayerCount = 1

\* C16: a didRestore on the empty stack is fatal: the recorder stops there,
\* the layer counter is not decremented, so it is never negative, and no
\* Restore entry is appended
C16_RestoreOnEmptyStackIsFatal ==
    /\ [][(lastOp' = "didRestore" /\ budget' < budget /\ fSaveIsSaveLayer = <<>>) =>
              /\ status' = "abort_underflow"
              /\ fSaveLayerCount' = fSaveLayerCount
              /\ fSaveIsSaveLayer' = fSaveIsSaveLayer
              /\ record' = record]_vars
    /\ [](fSaveLayerCount >= 0)
    /\ [](status = "abort_underflow" => Last(calls).op = "didRestore")

\* one save, one restore, and a restore too many
C16_Witness ==
    /\ status = "abort_underflow"
    /\ SavesIn(Len(calls)) = 1
    /\ RestoresIn(Len(calls)) = 2
    /\ Last(record).tag = "Restore"
    /\ Len(record) = 2

\* C17: a Restore entry carries the device bounds and the total matrix of
\* the base canvas as they are when didRestore runs, which are those of the
\* frame the restore returned to, not those of the frame it closed
C17_RestoreEntryCarriesRestoredState ==
    [][(lastOp' = "didRestore" /\ budget' < budget /\ status' = "alive") =>
           /\ Last(record').tag = "Restore"
           /\ Last(record').devBounds = fClip'
           /\ Last(record').matrix = fMatrix'
           /\ Last(record').devBounds = Last(fMCStack).clip
           /\ Last(record').matrix = Last(fMCStack).matrix]_vars

\* a save, a clip down to 1 and a matrix change inside it, and the restore
\* records the bounds and the matrix from before the save
C17_Witness ==
    /\ status = "alive"
    /\ lastOp = "didRestore"
    /\ Len(record) = 4
    /\ record[1].tag = "Save"
    /\ record[2].tag = "ClipRect"
    /\ record[2].devBounds = 1
    /\ record[3].tag = "SetMatrix"
    /\ record[3].matrix = 2
    /\ record[4].tag = "Restore"
    /\ record[4].devBounds = InitialClip
    /\ record[4].matrix = InitialMatrix

\* the slots of live snapshot buffers that hold picture p
HoldersOf(p) ==
    UNION {{<<k, i>> : i \in {j \in DOMAIN datas[k].array : datas[k].array[j] = p}} :
               k \in {j \in DOMAIN datas : ~datas[j].freed}}

\* the slots of all snapshot buffers, live or destroyed, that hold picture p
SlotsOf(p) ==
    UNION {{<<k, i>> : i \in {j \in DOMAIN datas[k].array : datas[k].array[j] = p}} :
               k \in DOMAIN datas}

\* C18: every picture reference in a snapshot buffer belongs to that buffer
\* alone and is released once, when the buffer is destroyed; destroying a
\* buffer releases exactly its count pictures and changes neither the side
\* table, nor a drawable's reference count, nor another buffer
C18_SnapshotOwnsItsPictures ==
    /\ [](\A p \in DOMAIN picRefCnt :
             /\ Cardinality(SlotsOf(p)) = 1
             /\ picRefCnt[p] = Cardinality(HoldersOf(p)))
    /\ [][(lastOp' = "unref_all_malloc_releaseProc" /\ budget' < budget) =>
              \E k \in DOMAIN datas :
                  /\ ~datas[k].freed /\ datas'[k].freed
                  /\ \A j \in DOMAIN datas \ {k} : datas'[j] = datas[j]
                  /\ datas'[k].array = datas[k].array
                  /\ \A p \in DOMAIN picRefCnt :
                         picRefCnt'[p] =
                             IF \E i \in DOMAIN datas[k].array : datas[k].array[i] = p
                             THEN picRefCnt[p] - 1
                             ELSE picRefCnt[p]
                  /\ fDrawableList' = fDrawableList
                  /\ refCnt' = refCnt]_vars

\* two snapshots of a table of two slots, the first buffer destroyed: its
\* two pictures are released, those of the second are still held
C18_Witness ==
    /\ lastOp = "unref_all_malloc_releaseProc"
    /\ Len(datas) = 2
    /\ datas[1].freed /\ ~datas[2].freed
    /\ datas[1].array = <<1, 2>>
    /\ datas[2].array = <<3, 4>>
    /\ picRefCnt = <<0, 0, 1, 1>>
    /\ Len(fDrawableList) = 2

SaveRestoreOps == {"willSave", "willSaveLayer", "didRestore"}
TableOps == {"onDrawDrawable", "forgetRecord"}
Accessors == {"isDrawingToLayer", "newDrawableSnapshot"}

\* C20: only save, save layer and restore change the save stack and the
\* layer counter (forget does not reset them); only drawDrawable and forget
\* change the drawable side table; the accessors isDrawingToLayer and
\* newDrawableSnapshot change neither the record, the stack, the counter nor
\* the side table
C20_OtherCallsLeaveStateAlone ==
    [][budget' < budget =>
           /\ lastOp' \notin SaveRestoreOps =>
                  /\ fSaveIsSaveLayer' = fSaveIsSaveLayer
                  /\ fSaveLayerCount' = fSaveLayerCount
           /\ lastOp' \notin TableOps => fDrawableList' = fDrawableList
           /\ lastOp' \in Accessors =>
                  /\ record' = record
                  /\ fRecord' = fRecord
                  /\ fSaveIsSaveLayer' = fSaveIsSaveLayer
                  /\ fSaveLayerCount' = fSaveLayerCount
                  /\ fDrawableList' = fDrawableList
                  /\ refCnt' = refCnt]_vars

\* a layer is open when the record is forgotten, and stays counted
C20_Witness ==
    /\ lastOp = "forgetRecord"
    /\ fRecord = NULL
    /\ fSaveIsSaveLayer = <<TRUE>>
    /\ fSaveLayerCount = 1
    /\ isDrawingToLayer

====
